---- MODULE Spec2Model ----
(***************************************************************************)
(* Scale-from-zero gate of the gateway: gateway/handlers/scaling.go.       *)
(*                                                                         *)
(* FunctionScaler.Scale queries the replica count of a function, asks for  *)
(* a scale-up when it is zero and polls until replicas appear or           *)
(* Config.MaxPollCount polls were made.  MakeScalingHandler wraps Scale    *)
(* and maps its FunctionScaleResult to the next handler or to a status.    *)
(*                                                                         *)
(* Every request is served by its own goroutine (a member of Procs); the   *)
(* scaler, its Config and its Cache are shared by all of them.  A step of  *)
(* a goroutine is one call that leaves the handler (ServiceQuery, Cache,   *)
(* time.Sleep, the ResponseWriter, next) with the local code up to the     *)
(* next such call.  ServiceQuery is an interface: what it returns is       *)
(* chosen freely at each call.                                             *)
(***************************************************************************)
EXTENDS Integers, Sequences, FiniteSets, TLC

\* ---------------------------------------------------------------- bounds
\* largest Config.MaxPollCount a scaler is built with
MaxPollBound == 2
\* largest AvailableReplicas / MinReplicas a query reports
MaxAvailable == 2
MaxMin == 2

\* request goroutines, and the function names getServiceName extracts
Procs == {"r1", "r2"}
Functions == {"figlet", "echo"}

\* ------------------------------------------------------ values of the code
\* net/http status codes
StatusNotFound == 404
StatusInternalServerError == 500
\* no WriteHeader call was made on the ResponseWriter
NoStatus == 0

\* error values: Go's nil, and the errors ServiceQuery can return
nil == "nil"
QueryErrors == {"query: not found", "query: unavailable"}
ScaleErrors == {"scale: rejected"}

\* scaling.ServiceQueryResponse as returned by GetReplicas
ServiceQueryResponse ==
    [AvailableReplicas : 0..MaxAvailable, MinReplicas : 0..MaxMin]
\* the zero value of a local that is not live
ZeroResponse == [AvailableReplicas |-> 0, MinReplicas |-> 0]

\* how fmt formats an error under the verb %s: a nil error has no Error method
FormatError(e) ==
    IF e = nil THEN "%!s(<nil>)" ELSE e

\* fmt.Errorf("unable to scale function [%s], err: %s", functionName, err)
Errorf(name, e) ==
    "unable to scale function [" \o name \o "], err: " \o FormatError(e)

\* FunctionScaleResult (Duration is wall-clock time and is not modelled)
FunctionScaleResult(e, available, found) ==
    [Error |-> e, Available |-> available, Found |-> found]
\* the zero value of the handler's res before Scale has returned
NoResult == FunctionScaleResult(nil, FALSE, FALSE)

\* the results Scale returns, in the order of its return statements
\* (lines 65, 85, 99, 111, 123)
\* variant: the failed initial query is reported without its error
NotFoundResult_NoError(e) == FunctionScaleResult(nil, FALSE, FALSE)
NotFoundResult(e) == FunctionScaleResult(e, FALSE, FALSE)

\* variant: the scale failure returns err as it is, without fmt.Errorf
ScaleFailedResult_Unwrapped(name, e) == FunctionScaleResult(e, FALSE, TRUE)
ScaleFailedResult(name, e) == FunctionScaleResult(Errorf(name, e), FALSE, TRUE)

\* variant: a failed poll reported like a failed initial query
PollFailedResult_NotFound(e) == FunctionScaleResult(e, FALSE, FALSE)
PollFailedResult(e) == FunctionScaleResult(e, FALSE, TRUE)

PollReadyResult == FunctionScaleResult(nil, TRUE, TRUE)

\* variant: the return after the loop reports the function unavailable
FinalResult_Unavailable == FunctionScaleResult(nil, FALSE, TRUE)
FinalResult == FunctionScaleResult(nil, TRUE, TRUE)

\* the tests Scale makes on a response (lines 75, 77, 98, 107)
\* variant: one available replica still counts as scaled to zero
NeedsScale_AtMostOne(response) == response.AvailableReplicas <= 1
NeedsScale(response) == response.AvailableReplicas = 0

\* variant: MinReplicas is requested as it is
TargetReplicas_AlwaysMin(response) == response.MinReplicas
TargetReplicas(response) ==
    IF response.MinReplicas > 0 THEN response.MinReplicas ELSE 1

\* the error fmt.Errorf wraps on a scale failure (line 86): err, the error
\* of the initial query, and not setScaleErr
\* variant: the error of the failed SetReplicas is wrapped
ScaleFailureCause_SetError(initialErr, scaleErr) == scaleErr
ScaleFailureCause(initialErr, scaleErr) == initialErr

\* variant: the error of a poll is not looked at
PollFailed_Ignored(e) == FALSE
PollFailed(e) == e # nil

PollReady(response) == response.AvailableReplicas > 0

\* the handler's reading of the result of Scale (lines 145-166)
\* variant: every rejection is written as not found
HandlerStatus_AlwaysNotFound(result) ==
    IF ~result.Found \/ result.Error # nil THEN StatusNotFound
    ELSE NoStatus
HandlerStatus(result) ==
    IF ~result.Found THEN StatusNotFound
    ELSE IF result.Error # nil THEN StatusInternalServerError
    ELSE NoStatus
HandlerForwards(result) ==
    result.Found /\ result.Error = nil /\ result.Available
\* the branches that call res.Error.Error() (lines 146, 155); the call
\* panics on a nil Error, before anything is written
HandlerDereferences(result) ==
    ~result.Found \/ result.Error # nil
HandlerPanics(result) ==
    HandlerDereferences(result) /\ result.Error = nil

VARIABLES
    Config,         \* ScalingConfig of the scaler (MaxPollCount)
    Cache,          \* scaler.Cache.Cache: function name -> last response set
    pc,             \* where each request goroutine is
    functionName,   \* handler local
    queryResponse,  \* Scale locals (lines 62, 76, 83)
    err,
    minReplicas,
    setScaleErr,
    i,              \* loop counter of the polling loop
    pollResponse,   \* the loop's own queryResponse, err (line 94)
    pollErr,
    res,            \* handler local: the result of Scale
    status,         \* status written to the ResponseWriter
    nextInvoked,    \* whether next.ServeHTTP was called for the request
    calls           \* per request: the ServiceQuery calls and sleeps made

locals == <<functionName, queryResponse, err, minReplicas, setScaleErr, i,
            pollResponse, pollErr>>
vars == <<Config, Cache, pc, functionName, queryResponse, err, minReplicas,
          setScaleErr, i, pollResponse, pollErr, res, status, nextInvoked,
          calls>>

\* records of the calls a request made
GetCall(r, e) == [op |-> "GetReplicas", replicas |-> r.AvailableReplicas, err |-> e]
SetCall(n, e) == [op |-> "SetReplicas", replicas |-> n, err |-> e]
SleepCall == [op |-> "Sleep", replicas |-> 0, err |-> nil]

\* NewFunctionScaler: an empty cache and the given configuration
NewFunctionScaler(config) ==
    /\ Cache = << >>
    /\ Config = config

Init ==
    /\ \E n \in 0..MaxPollBound : NewFunctionScaler([MaxPollCount |-> n])
    /\ pc = [p \in Procs |-> "idle"]
    /\ functionName = [p \in Procs |-> ""]
    /\ queryResponse = [p \in Procs |-> ZeroResponse]
    /\ err = [p \in Procs |-> nil]
    /\ minReplicas = [p \in Procs |-> 0]
    /\ setScaleErr = [p \in Procs |-> nil]
    /\ i = [p \in Procs |-> 0]
    /\ pollResponse = [p \in Procs |-> ZeroResponse]
    /\ pollErr = [p \in Procs |-> nil]
    /\ res = [p \in Procs |-> NoResult]
    /\ status = [p \in Procs |-> NoStatus]
    /\ nextInvoked = [p \in Procs |-> FALSE]
    /\ calls = [p \in Procs |-> << >>]

\* variant: an entry that exists is kept
CacheSet_IfAbsent(name, response) ==
    Cache' = Cache @@ (name :> response)

\* scaling.FunctionCache.Set: overwrite the entry of the function
CacheSet(name, response) ==
    Cache' = (name :> response) @@ Cache

\* Scale returns: the handler holds the result
Return(p, result) ==
    /\ res' = [res EXCEPT ![p] = result]
    /\ pc' = [pc EXCEPT ![p] = "Gate"]

\* the final return of Scale (lines 123-128)
ReturnAfterIf(p) ==
    Return(p, FinalResult)

\* variant: the loop test lets one more poll through
LoopTest_OffByOne(p, n) ==
    IF n <= Config.MaxPollCount
    THEN /\ pc' = [pc EXCEPT ![p] = "Poll"]
         /\ UNCHANGED res
    ELSE Return(p, FinalResult)

\* the loop test of line 93, with i already set in the next state
LoopTest(p, n) ==
    IF n < Config.MaxPollCount
    THEN /\ pc' = [pc EXCEPT ![p] = "Poll"]
         /\ UNCHANGED res
    ELSE ReturnAfterIf(p)

\* a request arrives: the handler extracts the function name, calls Scale
Request(p) ==
    /\ pc[p] = "idle"
    /\ \E name \in Functions : functionName' = [functionName EXCEPT ![p] = name]
    /\ pc' = [pc EXCEPT ![p] = "Query"]
    /\ UNCHANGED <<Config, Cache, queryResponse, err, minReplicas, setScaleErr,
                   i, pollResponse, pollErr, res, status, nextInvoked, calls>>

\* variant: a cached entry with available replicas answers without a query
InitialQuery_CacheFirst(p) ==
    /\ pc[p] = "Query"
    /\ IF /\ functionName[p] \in DOMAIN Cache
          /\ Cache[functionName[p]].AvailableReplicas > 0
       THEN /\ Return(p, FinalResult)
            /\ UNCHANGED <<calls, err, queryResponse>>
       ELSE \E r \in ServiceQueryResponse, e \in {nil} \cup QueryErrors :
            /\ calls' = [calls EXCEPT ![p] = Append(@, GetCall(r, e))]
            /\ err' = [err EXCEPT ![p] = e]
            /\ IF e # nil
               THEN /\ Return(p, NotFoundResult(e))
                    /\ UNCHANGED queryResponse
               ELSE /\ queryResponse' = [queryResponse EXCEPT ![p] = r]
                    /\ pc' = [pc EXCEPT ![p] = "CacheSet"]
                    /\ UNCHANGED res
    /\ UNCHANGED <<Config, Cache, functionName, minReplicas, setScaleErr, i,
                   pollResponse, pollErr, status, nextInvoked>>

\* variant: the response is recorded before err is tested, as in the loop
InitialQuery_RecordsFirst(p) ==
    /\ pc[p] = "Query"
    /\ \E r \in ServiceQueryResponse, e \in {nil} \cup QueryErrors :
        /\ calls' = [calls EXCEPT ![p] = Append(@, GetCall(r, e))]
        /\ err' = [err EXCEPT ![p] = e]
        /\ Cache' = (functionName[p] :> r) @@ Cache
        /\ IF e # nil
           THEN /\ Return(p, NotFoundResult(e))
                /\ UNCHANGED queryResponse
           ELSE /\ queryResponse' = [queryResponse EXCEPT ![p] = r]
                /\ pc' = [pc EXCEPT ![p] = "CacheSet"]
                /\ UNCHANGED res
    /\ UNCHANGED <<Config, functionName, minReplicas, setScaleErr, i,
                   pollResponse, pollErr, status, nextInvoked>>

\* lines 62-71: the initial GetReplicas
InitialQuery(p) ==
    /\ pc[p] = "Query"
    /\ \E r \in ServiceQueryResponse, e \in {nil} \cup QueryErrors :
        /\ calls' = [calls EXCEPT ![p] = Append(@, GetCall(r, e))]
        /\ err' = [err EXCEPT ![p] = e]
        /\ IF e # nil
           THEN /\ Return(p, NotFoundResult(e))
                /\ UNCHANGED queryResponse
           ELSE /\ queryResponse' = [queryResponse EXCEPT ![p] = r]
                /\ pc' = [pc EXCEPT ![p] = "CacheSet"]
                /\ UNCHANGED res
    /\ UNCHANGED <<Config, Cache, functionName, minReplicas, setScaleErr, i,
                   pollResponse, pollErr, status, nextInvoked>>

\* lines 73-81: record the response, decide whether to scale
RecordInitial(p) ==
    /\ pc[p] = "CacheSet"
    /\ CacheSet(functionName[p], queryResponse[p])
    /\ IF NeedsScale(queryResponse[p])
       THEN /\ minReplicas' = [minReplicas EXCEPT ![p] =
                    TargetReplicas(queryResponse[p])]
            /\ pc' = [pc EXCEPT ![p] = "SetReplicas"]
            /\ UNCHANGED res
       ELSE /\ ReturnAfterIf(p)
            /\ UNCHANGED minReplicas
    /\ UNCHANGED <<Config, functionName, queryResponse, err, setScaleErr, i,
                   pollResponse, pollErr, status, nextInvoked, calls>>

\* variant: a request does not scale a function that another request in
\* flight has already asked to scale
ScaleUp_Deduplicated(p) ==
    /\ pc[p] = "SetReplicas"
    /\ IF \E q \in Procs \ {p} :
            /\ functionName[q] = functionName[p]
            /\ \E k \in 1..Len(calls[q]) : calls[q][k].op = "SetReplicas"
       THEN /\ i' = [i EXCEPT ![p] = 0]
            /\ LoopTest(p, 0)
            /\ UNCHANGED <<calls, setScaleErr>>
       ELSE \E e \in {nil} \cup ScaleErrors :
            /\ calls' = [calls EXCEPT ![p] = Append(@, SetCall(minReplicas[p], e))]
            /\ setScaleErr' = [setScaleErr EXCEPT ![p] = e]
            /\ IF e # nil
               THEN /\ Return(p, ScaleFailedResult(functionName[p],
                                    ScaleFailureCause(err[p], e)))
                    /\ UNCHANGED i
               ELSE /\ i' = [i EXCEPT ![p] = 0]
                    /\ LoopTest(p, 0)
    /\ UNCHANGED <<Config, Cache, functionName, queryResponse, err, minReplicas,
                   pollResponse, pollErr, status, nextInvoked>>

\* lines 83-93: the scale request, then the first loop test
ScaleUp(p) ==
    /\ pc[p] = "SetReplicas"
    /\ \E e \in {nil} \cup ScaleErrors :
        /\ calls' = [calls EXCEPT ![p] = Append(@, SetCall(minReplicas[p], e))]
        /\ setScaleErr' = [setScaleErr EXCEPT ![p] = e]
        /\ IF e # nil
           THEN /\ Return(p, ScaleFailedResult(functionName[p],
                                ScaleFailureCause(err[p], e)))
                /\ UNCHANGED i
           ELSE /\ i' = [i EXCEPT ![p] = 0]
                /\ LoopTest(p, 0)
    /\ UNCHANGED <<Config, Cache, functionName, queryResponse, err, minReplicas,
                   pollResponse, pollErr, status, nextInvoked>>

\* line 94: a polling GetReplicas
PollQuery(p) ==
    /\ pc[p] = "Poll"
    /\ \E r \in ServiceQueryResponse, e \in {nil} \cup QueryErrors :
        /\ calls' = [calls EXCEPT ![p] = Append(@, GetCall(r, e))]
        /\ pollResponse' = [pollResponse EXCEPT ![p] = r]
        /\ pollErr' = [pollErr EXCEPT ![p] = e]
    /\ pc' = [pc EXCEPT ![p] = "PollCacheSet"]
    /\ UNCHANGED <<Config, Cache, functionName, queryResponse, err, minReplicas,
                   setScaleErr, i, res, status, nextInvoked>>

\* variant: the polled response is recorded only when the poll succeeded
RecordPoll_OnSuccess(p) ==
    /\ pc[p] = "PollCacheSet"
    /\ IF pollErr[p] = nil
       THEN CacheSet(functionName[p], pollResponse[p])
       ELSE UNCHANGED Cache
    /\ IF PollFailed(pollErr[p])
       THEN Return(p, PollFailedResult(pollErr[p]))
       ELSE IF PollReady(pollResponse[p])
       THEN Return(p, PollReadyResult)
       ELSE /\ pc' = [pc EXCEPT ![p] = "Sleep"]
            /\ UNCHANGED res
    /\ UNCHANGED <<Config, functionName, queryResponse, err, minReplicas,
                   setScaleErr, i, pollResponse, pollErr, status, nextInvoked,
                   calls>>

\* lines 95-117: record the polled response, then examine the outcome
RecordPoll(p) ==
    /\ pc[p] = "PollCacheSet"
    /\ CacheSet(functionName[p], pollResponse[p])
    /\ IF PollFailed(pollErr[p])
       THEN Return(p, PollFailedResult(pollErr[p]))
       ELSE IF PollReady(pollResponse[p])
       THEN Return(p, PollReadyResult)
       ELSE /\ pc' = [pc EXCEPT ![p] = "Sleep"]
            /\ UNCHANGED res
    /\ UNCHANGED <<Config, functionName, queryResponse, err, minReplicas,
                   setScaleErr, i, pollResponse, pollErr, status, nextInvoked,
                   calls>>

\* variant: no sleep after the last poll of the budget
Sleep_NotAfterLast(p) ==
    /\ pc[p] = "Sleep"
    /\ calls' = [calls EXCEPT ![p] =
            IF i[p] + 1 < Config.MaxPollCount THEN Append(@, SleepCall) ELSE @]
    /\ i' = [i EXCEPT ![p] = @ + 1]
    /\ LoopTest(p, i[p] + 1)
    /\ UNCHANGED <<Config, Cache, functionName, queryResponse, err, minReplicas,
                   setScaleErr, pollResponse, pollErr, status, nextInvoked>>

\* lines 119-120, 93: sleep one poll interval, i++, the loop test
Sleep(p) ==
    /\ pc[p] = "Sleep"
    /\ calls' = [calls EXCEPT ![p] = Append(@, SleepCall)]
    /\ i' = [i EXCEPT ![p] = @ + 1]
    /\ LoopTest(p, i[p] + 1)
    /\ UNCHANGED <<Config, Cache, functionName, queryResponse, err, minReplicas,
                   setScaleErr, pollResponse, pollErr, status, nextInvoked>>

\* lines 143-169: the handler maps the result of Scale
MakeScalingHandler(p) ==
    /\ pc[p] = "Gate"
    /\ IF HandlerPanics(res[p])
       THEN /\ pc' = [pc EXCEPT ![p] = "Panicked"]
            /\ UNCHANGED <<status, nextInvoked>>
       ELSE /\ status' = [status EXCEPT ![p] = HandlerStatus(res[p])]
            /\ nextInvoked' = [nextInvoked EXCEPT ![p] = HandlerForwards(res[p])]
            /\ pc' = [pc EXCEPT ![p] = "Done"]
    /\ UNCHANGED <<Config, Cache, locals, res, calls>>

\* the handler has returned; the goroutine serves the next request
Complete(p) ==
    /\ pc[p] = "Done"
    /\ pc' = [pc EXCEPT ![p] = "idle"]
    /\ functionName' = [functionName EXCEPT ![p] = ""]
    /\ queryResponse' = [queryResponse EXCEPT ![p] = ZeroResponse]
    /\ err' = [err EXCEPT ![p] = nil]
    /\ minReplicas' = [minReplicas EXCEPT ![p] = 0]
    /\ setScaleErr' = [setScaleErr EXCEPT ![p] = nil]
    /\ i' = [i EXCEPT ![p] = 0]
    /\ pollResponse' = [pollResponse EXCEPT ![p] = ZeroResponse]
    /\ pollErr' = [pollErr EXCEPT ![p] = nil]
    /\ res' = [res EXCEPT ![p] = NoResult]
    /\ status' = [status EXCEPT ![p] = NoStatus]
    /\ nextInvoked' = [nextInvoked EXCEPT ![p] = FALSE]
    /\ calls' = [calls EXCEPT ![p] = << >>]
    /\ UNCHANGED <<Config, Cache>>

\* requests served one at a time: a request arrives when none is in flight
SerialRequest(p) ==
    /\ \A q \in Procs : pc[q] = "idle"
    /\ Request(p)

\* requests for one function, served concurrently
Contended == "figlet"
ContendedRequest(p) ==
    /\ Request(p)
    /\ functionName'[p] = Contended

Next ==
    \E p \in Procs :
        \/ SerialRequest(p)
        \/ InitialQuery(p)
        \/ RecordInitial(p)
        \/ ScaleUp(p)
        \/ PollQuery(p)
        \/ RecordPoll(p)
        \/ Sleep(p)
        \/ MakeScalingHandler(p)
        \/ Complete(p)

Spec == Init /\ [][Next]_vars

\* a step of Scale: every call Scale makes returns
ScaleStep(p) ==
    \/ InitialQuery(p)
    \/ RecordInitial(p)
    \/ ScaleUp(p)
    \/ PollQuery(p)
    \/ RecordPoll(p)
    \/ Sleep(p)

FairSpec == Spec /\ \A p \in Procs : WF_vars(ScaleStep(p))

NextConc ==
    \E p \in Procs :
        \/ ContendedRequest(p)
        \/ InitialQuery(p)
        \/ RecordInitial(p)
        \/ ScaleUp(p)
        \/ PollQuery(p)
        \/ RecordPoll(p)
        \/ Sleep(p)
        \/ MakeScalingHandler(p)
        \/ Complete(p)

\* the scaler of the concurrent requests polls at most half of MaxPollBound
\* times: the states of two requests in flight multiply
InitConc ==
    /\ Init
    /\ Config.MaxPollCount <= MaxPollBound \div 2

SpecConc == InitConc /\ [][NextConc]_vars

\* ------------------------------------------------- reading a request's calls
\* Scale has returned to the handler; the handler has returned
Returned(p) == pc[p] \in {"Gate", "Done"}
Handled(p) == pc[p] = "Done"

\* the positions of the polling GetReplicas calls: every GetReplicas but the first
PollCalls(p) ==
    {k \in 2..Len(calls[p]) : calls[p][k].op = "GetReplicas"}
CountCalls(p, op) ==
    Cardinality({k \in 1..Len(calls[p]) : calls[p][k].op = op})

FirstGetSucceeded(p) ==
    /\ Len(calls[p]) >= 1
    /\ calls[p][1].err = nil
FirstGetFailed(p) ==
    /\ Len(calls[p]) >= 1
    /\ calls[p][1].err # nil
SetSucceeded(p) ==
    \E k \in 1..Len(calls[p]) :
        calls[p][k].op = "SetReplicas" /\ calls[p][k].err = nil
SetFailed(p) ==
    \E k \in 1..Len(calls[p]) :
        calls[p][k].op = "SetReplicas" /\ calls[p][k].err # nil
\* every one of the MaxPollCount polls was made, and each reported zero replicas
PollsExhausted(p) ==
    /\ Returned(p)
    /\ SetSucceeded(p)
    /\ Cardinality(PollCalls(p)) = Config.MaxPollCount
    /\ \A k \in PollCalls(p) :
        calls[p][k].err = nil /\ calls[p][k].replicas = 0
\* some GetReplicas of the request saw the function ready
SawReplicas(p) ==
    \E k \in 1..Len(calls[p]) :
        /\ calls[p][k].op = "GetReplicas"
        /\ calls[p][k].err = nil
        /\ calls[p][k].replicas > 0

\* ------------------------------------------------------------------ claims

\* C1: when the Set succeeded and each of the MaxPollCount polls reported zero
\* available replicas, Scale returns Available=false, Found=true, Error=nil.
\* Stated for a scaler that polls at least once.  (Scale returns
\* Available=true there: the return of lines 123-128 follows the loop.)
C1_ExhaustedIsUnavailable ==
    \A p \in Procs :
        (PollsExhausted(p) /\ Config.MaxPollCount > 0) =>
            res[p] = FunctionScaleResult(nil, FALSE, TRUE)

\* C2: the handler invokes next only for a request whose function became
\* ready: some GetReplicas of the request reported available replicas; a
\* request whose MaxPollCount polls all reported zero does not reach next.
\* Stated for a scaler that polls at least once.  (After exhausted polls
\* Scale reports Available=true and the handler invokes next.)
C2_NextOnlyWhenReady ==
    \A p \in Procs :
        (Handled(p) /\ nextInvoked[p] /\ Config.MaxPollCount > 0) =>
            SawReplicas(p)

\* C3: when the first GetReplicas reports available replicas, that call is
\* the only one Scale makes (no SetReplicas, no poll, no sleep) and Scale
\* returns Available=true, Found=true, Error=nil.
FirstGetReady(p) ==
    /\ FirstGetSucceeded(p)
    /\ calls[p][1].replicas > 0
C3_ReadyAtFirstQuery ==
    \A p \in Procs :
        FirstGetReady(p) =>
            /\ Len(calls[p]) = 1
            /\ Returned(p) => res[p] = FunctionScaleResult(nil, TRUE, TRUE)
C3_Witness ==
    \E p \in Procs : FirstGetReady(p) /\ Handled(p)

\* C4: Scale returns Found=false exactly when its first GetReplicas failed,
\* and then Available=false and Error is the error of that call.
C4_NotFoundIffFirstGetFailed ==
    \A p \in Procs :
        Returned(p) =>
            /\ ~res[p].Found <=> FirstGetFailed(p)
            /\ FirstGetFailed(p) =>
                res[p] = FunctionScaleResult(calls[p][1].err, FALSE, FALSE)
C4_Witness ==
    \E p \in Procs : Handled(p) /\ FirstGetFailed(p) /\ ~res[p].Found

\* C5: when the first GetReplicas reported zero replicas and SetReplicas
\* failed, Scale has returned Found=true, Available=false and a non-nil Error,
\* and the failed SetReplicas is the last call it made.
C5_SetFailure ==
    \A p \in Procs :
        SetFailed(p) =>
            /\ FirstGetSucceeded(p) /\ calls[p][1].replicas = 0
            /\ Len(calls[p]) = 2
            /\ Returned(p)
            /\ res[p].Found /\ ~res[p].Available /\ res[p].Error # nil
C5_Witness ==
    \E p \in Procs : SetFailed(p) /\ Handled(p)

\* C6: a polling GetReplicas that failed is the last call of the request (no
\* further GetReplicas, SetReplicas or sleep), and once its response is
\* recorded Scale has returned Found=true, Available=false, Error=its error.
C6_PollFailure ==
    \A p \in Procs :
        \A k \in PollCalls(p) :
            calls[p][k].err # nil =>
                /\ k = Len(calls[p])
                /\ \/ pc[p] = "PollCacheSet"
                   \/ /\ Returned(p)
                      /\ res[p] = FunctionScaleResult(calls[p][k].err, FALSE, TRUE)
\* a poll failed while poll attempts remained
C6_Witness ==
    \E p \in Procs :
        /\ Handled(p)
        /\ \E k \in PollCalls(p) : calls[p][k].err # nil
        /\ Cardinality(PollCalls(p)) < Config.MaxPollCount

\* C7: a polling GetReplicas that reported available replicas is the last
\* call of the request, every poll before it reported zero replicas without
\* error, at most MaxPollCount polls were made, and on return Scale reports
\* Available=true, Found=true, Error=nil and the cache entry of the function
\* is the response of that poll.  The cache part is for requests served one
\* at a time (Spec): under SpecConc another request for the same function
\* may write the entry between this request's Cache.Set and its return.
PollReadyAt(p, k) ==
    /\ k \in PollCalls(p)
    /\ calls[p][k].err = nil
    /\ calls[p][k].replicas > 0
C7_ReadyAtPoll ==
    \A p \in Procs :
        \A k \in PollCalls(p) :
            PollReadyAt(p, k) =>
                /\ k = Len(calls[p])
                /\ \A j \in PollCalls(p) \ {k} :
                    calls[p][j].err = nil /\ calls[p][j].replicas = 0
                /\ Cardinality(PollCalls(p)) <= Config.MaxPollCount
                /\ pollResponse[p].AvailableReplicas = calls[p][k].replicas
                /\ Returned(p) =>
                    /\ res[p] = FunctionScaleResult(nil, TRUE, TRUE)
                    /\ functionName[p] \in DOMAIN Cache
                    /\ Cache[functionName[p]] = pollResponse[p]
\* ready at the second poll, after a poll that reported zero
C7_Witness ==
    \E p \in Procs :
        /\ Handled(p)
        /\ \E k \in PollCalls(p) : PollReadyAt(p, k)
        /\ Cardinality(PollCalls(p)) = 2

\* C8: for a result with Found=false the handler writes 404 and does not
\* invoke next; for a result with Found=true and a non-nil Error it writes 500
\* and does not invoke next.
C8_Rejections ==
    \A p \in Procs :
        Handled(p) =>
            /\ ~res[p].Found =>
                status[p] = StatusNotFound /\ ~nextInvoked[p]
            /\ (res[p].Found /\ res[p].Error # nil) =>
                status[p] = StatusInternalServerError /\ ~nextInvoked[p]
C8_Witness ==
    \E p \in Procs : Handled(p) /\ res[p].Found /\ res[p].Error # nil

\* C9: a handled request either had next invoked or had a status written,
\* and never both: no result Scale can return leaves the request with neither.
C9_OneOutcome ==
    \A p \in Procs :
        Handled(p) => (nextInvoked[p] <=> status[p] = NoStatus)
\* the request whose polls were exhausted, the one result the handler has a
\* branch for that writes nothing
C9_Witness ==
    \E p \in Procs :
        Handled(p) /\ PollsExhausted(p) /\ Config.MaxPollCount > 0

\* C10: a Scale call that was started returns, having made at most
\* 1 + MaxPollCount GetReplicas calls and at most one SetReplicas call, for
\* every MaxPollCount in 0..MaxPollBound and every sequence of responses.
CallBudget ==
    \A p \in Procs :
        /\ CountCalls(p, "GetReplicas") <= 1 + Config.MaxPollCount
        /\ CountCalls(p, "SetReplicas") <= 1
C10_ScaleTerminates ==
    /\ []CallBudget
    /\ \A p \in Procs : (pc[p] = "Query") ~> Returned(p)
\* a call that used its whole budget, under the largest MaxPollCount
C10_Witness ==
    \E p \in Procs :
        /\ Returned(p)
        /\ Config.MaxPollCount = MaxPollBound
        /\ CountCalls(p, "GetReplicas") = 1 + Config.MaxPollCount
        /\ CountCalls(p, "SetReplicas") = 1

\* C11: the handler never panics: whenever it calls res.Error.Error() (the
\* result has Found=false or a non-nil Error) the Error is not nil; every
\* result of Scale with Found=false carries a non-nil Error.
C11_NoNilDereference ==
    \A p \in Procs :
        /\ pc[p] # "Panicked"
        /\ (Returned(p) /\ ~res[p].Found) => res[p].Error # nil
        /\ (Returned(p) /\ HandlerDereferences(res[p])) => res[p].Error # nil
\* the handler went through the Found=false branch
C11_Witness ==
    \E p \in Procs :
        Handled(p) /\ ~res[p].Found /\ status[p] = StatusNotFound

\* C12: SetReplicas is called exactly when the first GetReplicas succeeded
\* with zero available replicas, once, and asks for the MinReplicas of that
\* response when it is positive and for 1 otherwise, never for 0.
SetTargets(p) ==
    {calls[p][k].replicas : k \in {j \in 1..Len(calls[p]) :
                                    calls[p][j].op = "SetReplicas"}}
C12_SetOnceWithTarget ==
    \A p \in Procs :
        /\ CountCalls(p, "SetReplicas") <= 1
        /\ CountCalls(p, "SetReplicas") = 1 =>
            /\ FirstGetSucceeded(p) /\ calls[p][1].replicas = 0
            /\ calls[p][2].op = "SetReplicas"
        /\ (Returned(p) /\ FirstGetSucceeded(p) /\ calls[p][1].replicas = 0) =>
            CountCalls(p, "SetReplicas") = 1
        /\ \A n \in SetTargets(p) :
            /\ n # 0
            /\ queryResponse[p].MinReplicas > 0 => n = queryResponse[p].MinReplicas
            /\ queryResponse[p].MinReplicas = 0 => n = 1
\* a scale request for a MinReplicas above 1
C12_Witness ==
    \E p \in Procs :
        /\ Handled(p)
        /\ queryResponse[p].MinReplicas = MaxMin
        /\ SetTargets(p) = {MaxMin}

\* C13: once a polling GetReplicas has been recorded, and until the next
\* poll returns, the cache entry of the function is the response of the last
\* polling GetReplicas, whether that call failed or not; in particular on
\* return from a Scale call that polled.  Cache.Set and the test of err are
\* one step of the request, so the entry is there whenever the outcome is.
\* For requests served one at a time.
LastPoll(p) ==
    CHOOSE k \in PollCalls(p) : \A j \in PollCalls(p) : j <= k
PollRecorded(p) ==
    /\ pc[p] \in {"Sleep", "Poll", "Gate", "Done"}
    /\ PollCalls(p) # {}
C13_CacheHoldsLastPoll ==
    \A p \in Procs :
        PollRecorded(p) =>
            /\ pollResponse[p].AvailableReplicas = calls[p][LastPoll(p)].replicas
            /\ pollErr[p] = calls[p][LastPoll(p)].err
            /\ functionName[p] \in DOMAIN Cache
            /\ Cache[functionName[p]] = pollResponse[p]
\* the entry is the response that came with an error, and differs from the
\* zero-replica response of the initial query
C13_Witness ==
    \E p \in Procs :
        /\ Handled(p)
        /\ PollCalls(p) # {}
        /\ pollErr[p] # nil
        /\ pollResponse[p].AvailableReplicas > 0
        /\ Cache[functionName[p]] = pollResponse[p]

\* C14: a step after which a request's first GetReplicas has failed (the
\* failing call itself, and the handler's step after it) leaves the cache as
\* it was, and that GetReplicas is the only call of the request: no
\* SetReplicas.  For requests served one at a time.
C14_FailedQueryLeavesCache ==
    [][\A p \in Procs :
        FirstGetFailed(p)' =>
            /\ Cache' = Cache
            /\ Len(calls'[p]) = 1]_vars
\* the first GetReplicas failed for a function that has a cache entry
C14_Witness ==
    \E p \in Procs :
        /\ Handled(p)
        /\ FirstGetFailed(p)
        /\ functionName[p] \in DOMAIN Cache

\* C15: Scale never reads the cache: the calls a request issues and the
\* result it returns are a function of the function name, MaxPollCount and
\* the responses it received, whatever the cache held when it started.
\* NextOp is the call that follows the first k calls and their responses,
\* "return" when Scale returns instead; neither it nor ResultOfResponses
\* reads Cache.
PollsBefore(p, k) ==
    Cardinality({j \in PollCalls(p) : j <= k})
NextOp(p, k) ==
    IF k = 0 THEN "GetReplicas"
    ELSE LET c == calls[p][k] IN
         IF c.err # nil THEN "return"
         ELSE IF c.op = "GetReplicas"
              THEN IF c.replicas > 0 THEN "return"
                   ELSE IF k = 1 THEN "SetReplicas" ELSE "Sleep"
         ELSE IF PollsBefore(p, k) < Config.MaxPollCount
              THEN "GetReplicas" ELSE "return"
ResultOfResponses(p) ==
    LET last == calls[p][Len(calls[p])] IN
    IF last.err = nil
    THEN [Error |-> nil, Available |-> TRUE, Found |-> TRUE]
    ELSE IF Len(calls[p]) = 1
    THEN [Error |-> last.err, Available |-> FALSE, Found |-> FALSE]
    ELSE IF last.op = "GetReplicas"
    THEN [Error |-> last.err, Available |-> FALSE, Found |-> TRUE]
    ELSE [Error |-> "unable to scale function [" \o functionName[p]
                        \o "], err: %!s(<nil>)",
          Available |-> FALSE, Found |-> TRUE]
C15_CacheNeverRead ==
    \A p \in Procs :
        /\ \A k \in 0..(Len(calls[p]) - 1) : calls[p][k + 1].op = NextOp(p, k)
        /\ Returned(p) =>
            /\ Len(calls[p]) >= 1
            /\ NextOp(p, Len(calls[p])) = "return"
            /\ res[p] = ResultOfResponses(p)
\* a request that found an entry with available replicas in the cache, and
\* queried all the same: its GetReplicas reported zero replicas
C15_Witness ==
    \E p \in Procs :
        /\ pc[p] = "CacheSet"
        /\ functionName[p] \in DOMAIN Cache
        /\ Cache[functionName[p]].AvailableReplicas > 0
        /\ Len(calls[p]) = 1
        /\ calls[p][1].err = nil /\ calls[p][1].replicas = 0

\* C16: scale-ups are not deduplicated.  Under concurrent requests for one
\* function, every request whose first GetReplicas reported zero replicas
\* issues its own SetReplicas, whatever the other requests did, and a request
\* that returned has the result its own calls and responses determine.
ObservedZero(p) ==
    /\ FirstGetSucceeded(p)
    /\ calls[p][1].replicas = 0
    /\ pc[p] \notin {"CacheSet", "SetReplicas"}
C16_NoDeduplication ==
    \A p \in Procs :
        /\ ObservedZero(p) =>
            /\ Len(calls[p]) >= 2
            /\ calls[p][2] \in {SetCall(minReplicas[p], e) : e \in {nil} \cup ScaleErrors}
        /\ Returned(p) =>
            /\ NextOp(p, Len(calls[p])) = "return"
            /\ res[p] = ResultOfResponses(p)
\* two requests in flight for the same function, each having observed zero
\* replicas and issued its SetReplicas
C16_Witness ==
    \E p, q \in Procs :
        /\ p # q
        /\ functionName[p] = functionName[q]
        /\ pc[p] = "Poll" /\ pc[q] = "Poll"
        /\ ObservedZero(p) /\ ObservedZero(q)
        /\ CountCalls(p, "SetReplicas") = 1
        /\ CountCalls(q, "SetReplicas") = 1

\* C17: a Scale call that returned slept once for each polling GetReplicas
\* that succeeded with zero available replicas: one sleep less than its polls
\* when a poll reported replicas, MaxPollCount sleeps when the polls were
\* exhausted, and none when it made no poll (ready at the first query, failed
\* first query, failed SetReplicas).
ZeroPolls(p) ==
    {k \in PollCalls(p) : calls[p][k].err = nil /\ calls[p][k].replicas = 0}
C17_SleepPerZeroPoll ==
    \A p \in Procs :
        Returned(p) =>
            /\ CountCalls(p, "Sleep") = Cardinality(ZeroPolls(p))
            /\ (\E k \in PollCalls(p) : PollReadyAt(p, k)) =>
                CountCalls(p, "Sleep") = Cardinality(PollCalls(p)) - 1
            /\ PollsExhausted(p) =>
                CountCalls(p, "Sleep") = Config.MaxPollCount
            /\ (FirstGetReady(p) \/ FirstGetFailed(p) \/ SetFailed(p)) =>
                CountCalls(p, "Sleep") = 0
\* the polls were exhausted under the largest MaxPollCount
C17_Witness ==
    \E p \in Procs :
        /\ Handled(p)
        /\ PollsExhausted(p)
        /\ Config.MaxPollCount = MaxPollBound
        /\ CountCalls(p, "Sleep") = MaxPollBound

\* C18: when SetReplicas fails, the Error of the result wraps the error of
\* the initial GetReplicas, which is nil there, and not the error SetReplicas
\* returned; no result of Scale is, or wraps, an error of SetReplicas.
C18_SetErrorNotSurfaced ==
    \A p \in Procs :
        Returned(p) =>
            /\ SetFailed(p) =>
                /\ err[p] = nil
                /\ setScaleErr[p] \in ScaleErrors
                /\ res[p].Error = "unable to scale function ["
                        \o functionName[p] \o "], err: %!s(<nil>)"
            /\ \A e \in ScaleErrors :
                /\ res[p].Error # e
                /\ res[p].Error # "unable to scale function ["
                        \o functionName[p] \o "], err: " \o e
C18_Witness ==
    \E p \in Procs :
        Handled(p) /\ SetFailed(p) /\ status[p] = StatusInternalServerError

====
